---- MODULE Spec2Model ----
(***************************************************************************)
(* Position-change detection and stabilization pipeline of the FEN         *)
(* listener (src/mainListener.js) together with the automove globals of    *)
(* src/chess_engine_setup.js that the listener's WebSocket hook touches.   *)
(*                                                                         *)
(* JavaScript strings are sequences of one-character strings; null is the  *)
(* value Null, which is no such sequence.                                  *)
(***************************************************************************)
EXTENDS Integers, Sequences, FiniteSets, TLC

\* ------------------------------------------------------------------ bounds
\* Longest token list the board widget is given in the splitFen development.
MaxToks == 7
\* How late (in ms) one timer callback may run after its delay has elapsed.
LateMs == 140
\* No callback is modelled later than this many ms after its attempt began.
MaxElapsed == 2400
\* No more than this many messages are posted to the engine.
MaxEngineIn == 7
\* No more than this many moves are sent on the socket.
MaxSent == 2

\* ------------------------------------------------------- program constants
STABLE_DELAY_MS == 220
CONFIRM_DELAY_MS == 120
MAX_WAIT_MS == 1500
POLL_MS == 300

\* ------------------------------------------------------------ JS strings
Null == <<"null">>
SP == " "

IsSpace(c) == c = SP

\* s is falsy in JavaScript: null or the empty string.
Falsy(s) == s = Null \/ s = <<>>

\* a || b on strings
OrElse(a, b) == IF Falsy(a) THEN b ELSE a

RECURSIVE TrimLeft(_)
TrimLeft(s) ==
  IF s = <<>> THEN <<>>
  ELSE IF IsSpace(Head(s)) THEN TrimLeft(Tail(s)) ELSE s

RECURSIVE TrimRight(_)
TrimRight(s) ==
  IF s = <<>> THEN <<>>
  ELSE IF IsSpace(s[Len(s)]) THEN TrimRight(SubSeq(s, 1, Len(s) - 1)) ELSE s

\* String.prototype.trim
Trim(s) == TrimRight(TrimLeft(s))

\* String.prototype.split(/\s+/): every maximal run of whitespace separates
\* two parts, so leading or trailing whitespace yields an empty first or last
\* part, and the empty string yields one empty part.
RECURSIVE SplitScan(_, _, _, _)
SplitScan(s, acc, cur, inRun) ==
  IF s = <<>> THEN Append(acc, cur)
  ELSE IF IsSpace(Head(s))
       THEN IF inRun THEN SplitScan(Tail(s), acc, cur, TRUE)
                     ELSE SplitScan(Tail(s), Append(acc, cur), <<>>, TRUE)
       ELSE SplitScan(Tail(s), acc, Append(cur, Head(s)), FALSE)

\* split(' '): every single space separates, so a run of spaces yields
\* empty parts.
RECURSIVE SplitEach(_, _, _)
SplitEach(s, acc, cur) ==
  IF s = <<>> THEN Append(acc, cur)
  ELSE IF IsSpace(Head(s)) THEN SplitEach(Tail(s), Append(acc, cur), <<>>)
       ELSE SplitEach(Tail(s), acc, Append(cur, Head(s)))

SplitOnSpace(s) == SplitEach(s, <<>>, <<>>)

\* data.split(' ')
SplitSpace(s) == SplitEach(s, <<>>, <<>>)

\* String.prototype.startsWith
StartsWith(s, prefix) ==
  Len(s) >= Len(prefix) /\ SubSeq(s, 1, Len(prefix)) = prefix

SplitWs(s) == SplitScan(s, <<>>, <<>>, FALSE)

\* String.prototype.includes
Includes(s, sub) ==
  \E i \in 1..(Len(s) - Len(sub) + 1) : SubSeq(s, i, i + Len(sub) - 1) = sub

\* ------------------------------------------------------- Field Normalizer
\* while (parts.length < 6) parts.push('-')
RECURSIVE PadParts(_)
PadParts(parts) ==
  IF Len(parts) < 6 THEN PadParts(Append(parts, <<"-">>)) ELSE parts

\* What splitFen returns for an absent position; every field is Null.
NoSample ==
  [placement |-> Null, active |-> Null, castling |-> Null, ep |-> Null,
   half |-> Null, full |-> Null, raw |-> Null]

SplitFenParts(fen) == PadParts(SplitWs(fen))

\* The guard against an absent position dropped: null reads as 'null'.
splitFenUnguarded(fen) ==
  LET parts == SplitFenParts(fen) IN
  [placement |-> parts[1],
   active    |-> OrElse(parts[2], <<"?">>),
   castling  |-> OrElse(parts[3], <<"-">>),
   ep        |-> OrElse(parts[4], <<"-">>),
   half      |-> OrElse(parts[5], <<"0">>),
   full      |-> OrElse(parts[6], <<"1">>),
   raw       |-> fen]

splitFen(fen) ==
  IF Falsy(fen) THEN NoSample
  ELSE LET parts == SplitFenParts(fen) IN
       [placement |-> parts[1],
        active    |-> OrElse(parts[2], <<"?">>),
        castling  |-> OrElse(parts[3], <<"-">>),
        ep        |-> OrElse(parts[4], <<"-">>),
        half      |-> OrElse(parts[5], <<"0">>),
        full      |-> OrElse(parts[6], <<"1">>),
        raw       |-> fen]

\* --------------------------------------------------------- Position Reader
\* The board widget: ok is FALSE when the element, its game or its getFEN is
\* missing, getFEN throws or returns a non-string; otherwise getFEN returns
\* the tokens toks joined by runs of gap spaces, with lead leading and trail
\* trailing spaces.
RECURSIVE Spaces(_)
Spaces(n) == IF n <= 0 THEN <<>> ELSE <<SP>> \o Spaces(n - 1)

RECURSIVE Join(_, _)
Join(toks, sep) ==
  IF toks = <<>> THEN <<>>
  ELSE IF Len(toks) = 1 THEN toks[1]
  ELSE toks[1] \o sep \o Join(Tail(toks), sep)

WidgetFen(w) == Spaces(w.lead) \o Join(w.toks, Spaces(w.gap)) \o Spaces(w.trail)

getFEN(w) == IF w.ok THEN Trim(WidgetFen(w)) ELSE Null


\* -------------------------------------------------------------- the state
VARIABLES
  source,            \* the board widget the page currently shows
  engineScript,      \* chess_engine_setup.js globals are in scope
  stockfish,         \* typeof window.STOCKFISH !== 'undefined'
  listener,          \* window.__FEN_LISTENER__.type, "none" while unset
  watchers,          \* the change watchers installed on the page
  wsHooked,          \* window.WebSocket is the listener's Proxy
  wsAlive,           \* a socket built through the Proxy carries the handler
  lastSentPlacement,
  lastSentActive,
  settleTimer,       \* TRUE when the handle is not null
  confirmTimer,      \* TRUE when the handle is not null
  pending,
  timers,            \* the scheduled timeouts with their closures
  gameId,
  isWhite,           \* "null", "true", "false"
  currentFen,
  bestMove,
  autoMoveEnabled,
  chessEngine,       \* TRUE once the engine wrapper is stored
  webSocketWrapper,  \* readyState of the stored socket, "null" when unset
  engineIn,          \* messages posted to the engine, oldest first
  wsOut,             \* the moves sent on the stored socket, oldest first
  ev,                \* the handler that ran last, what it read and dispatched
  lastPush           \* the detail of the last FENPush, Null before the first

envVars == <<engineScript, stockfish>>
stabVars == <<lastSentPlacement, lastSentActive, settleTimer, confirmTimer,
              pending, timers>>
engineVars == <<gameId, isWhite, currentFen, bestMove, autoMoveEnabled,
                chessEngine, webSocketWrapper, engineIn, wsOut>>
vars == <<source, envVars, listener, watchers, wsHooked, wsAlive, stabVars, engineVars,
          ev, lastPush>>

\* ------------------------------------------------------ board positions
X == <<"X">>
Y == <<"Y">>
W == <<"w">>
B == <<"b">>
K == <<"K">>

Pos(toks) == [ok |-> TRUE, toks |-> toks, lead |-> 0, trail |-> 0, gap |-> 1]
Absent == [ok |-> FALSE, toks |-> <<>>, lead |-> 0, trail |-> 0, gap |-> 1]

\* The widget states of the stabilizer development: unreadable, two
\* placements, a position without its colour field and one that differs from
\* another in castling only.
Boards ==
  {Absent, Pos(<<X, W>>), Pos(<<Y, W>>), Pos(<<X>>), Pos(<<X, W, K>>)}

\* The widget states of the splitFen development: up to MaxToks tokens.
TokenSet == {X, <<"K", "Q">>}
AllBoards ==
  {Absent} \cup
  {[ok |-> TRUE, toks |-> t, lead |-> l, trail |-> r, gap |-> g] :
     t \in UNION {[1..n -> TokenSet] : n \in 0..MaxToks},
     l \in 0..1, r \in 0..1, g \in 1..2}

\* splitFen(getFEN()) for each state of the widget, tabulated.
sampleOf == [b \in Boards \cup AllBoards |-> splitFen(getFEN(b))]

\* ----------------------------------------------------------- Emission Sink
\* dispatch(fen): the FENPush events one call raises.
dispatch(fen) == IF Falsy(fen) THEN <<>> ELSE <<fen>>

Logged(last, out) == IF out = <<>> THEN last ELSE out[Len(out)]

\* An inbound WebSocket message: json is FALSE for data JSON.parse rejects.
Message(json, t, color, status, fen, hasPly, ply) ==
  [json |-> json, t |-> t, color |-> color, status |-> status, fen |-> fen,
   hasPly |-> hasPly, ply |-> ply]

NoMessage == Message(FALSE, "none", "none", 0, Null, FALSE, 0)

\* The page a listener script runs on: its hostname includes 'lichess.org'
\* iff lichess, its board element is elKind ("none", "plain", or "events"
\* when its game has an on function) and MutationObserver is defined iff
\* hasMO.
Page(lichess, elKind, hasMO) ==
  [lichess |-> lichess, elKind |-> elKind, hasMO |-> hasMO]

NoPage == Page(FALSE, "none", FALSE)

\* agreed: some round of the attempt so far read two samples with the same
\* placement and active colour. msg is the message a WebSocket handler was
\* given, page the page a listener script ran on, data what the engine's
\* onmessage handler was given and pos the position the engine computed it
\* for.
Event(op, f1, f2, elapsed, round, agreed, out) ==
  [op |-> op, f1 |-> f1, f2 |-> f2, elapsed |-> elapsed, round |-> round,
   agreed |-> agreed, out |-> out, msg |-> NoMessage, page |-> NoPage,
   data |-> Null, pos |-> Null]

\* --------------------------------------------------------------- timers
\* A scheduled timeout: held says that the handle variable of its kind
\* (settleTimer, confirmTimer) still refers to it; at is the time since the
\* attempt began at which it was scheduled; f1 is the sample its closure
\* holds; round counts the attempt's sampling rounds and agreed says that an
\* earlier round read two samples with the same placement and active colour.
Timer(kind, delay, at, f1, round, agreed) ==
  [kind |-> kind, delay |-> delay, at |-> at, f1 |-> f1, round |-> round,
   agreed |-> agreed, held |-> TRUE]

\* The handle variable of kind is overwritten: it lets go of older timers.
Released(ts, kind) ==
  {IF t.kind = kind THEN [t EXCEPT !.held = FALSE] ELSE t : t \in ts}

Lateness == {0, LateMs}

\* clearTimers (the teardown hook exposed on window.__FEN_LISTENER__): the
\* timers that stay scheduled.
\* clearTimeout(confirmTimer) dropped.
ClearedSettleOnly == {t \in timers : ~t.held \/ t.kind = "confirm"}

ClearedTimers == {t \in timers : ~t.held}

\* ------------------------------------------------------ Change Stabilizer
\* The comparison with the active colour forgotten.
samePlacement(f1, f2) == f2.placement = f1.placement

\* The two samples compared as whole strings.
unchangedRaw(f1, f2) == f2.raw = f1.raw

unchanged(f1, f2) == f2.placement = f1.placement /\ f2.active = f1.active

\* The de-duplication check dropped.
alwaysNew(f2, lsp, lsa) == TRUE

\* The de-duplication check with the active colour forgotten.
newPlacementOnly(f2, lsp, lsa) == f2.placement # lsp

isNewPosition(f2, lsp, lsa) == f2.placement # lsp \/ f2.active # lsa

\* The timeout never reached.
withinWaitForever(elapsed) == TRUE

\* The timeout compared with <= instead of <.
withinWaitInclusive(elapsed) == elapsed <= MAX_WAIT_MS

withinWait(elapsed) == elapsed < MAX_WAIT_MS

\* The confirm callback's decision for two readable samples.
Decide(f1, f2, elapsed, lsp, lsa) ==
  IF isNewPosition(f2, lsp, lsa) /\ unchanged(f1, f2) THEN "emit"
  ELSE IF withinWait(elapsed) THEN "retry"
  ELSE "abandon"

\* What the emit branch hands to dispatch.
\* The first sample's string dispatched instead of the second's.
emittedFirst(f1, f2) == f1.raw

emitted(f1, f2) == f2.raw

\* onAnyChange: whether the notification goes on to stableEmit.
\* The pending guard dropped.
alwaysStarts(p) == TRUE

startsAttempt(p) == ~p

\* ------------------------------------------------------- automove globals
\* completeFen(partialFen) of chess_engine_setup.js
completeFen(partialFen) ==
  IF Falsy(partialFen) THEN Null
  ELSE LET parts == SplitWs(Trim(partialFen))
           part(i) == IF i <= Len(parts) THEN parts[i] ELSE <<>>
       IN  OrElse(part(1), <<>>) \o <<SP>> \o OrElse(part(2), W) \o <<SP>> \o
           OrElse(part(3), <<"K", "Q", "k", "q">>) \o <<SP>> \o
           OrElse(part(4), <<"-">>) \o <<SP>> \o OrElse(part(5), <<"0">>) \o
           <<SP>> \o OrElse(part(6), <<"1">>)

\* calculateMove(): the messages it posts to the engine.
calculateMove(auto, engine, fen) ==
  IF ~auto THEN <<>>
  ELSE IF ~engine \/ Falsy(fen) THEN <<>>
  ELSE << [cmd |-> "position", fen |-> fen], [cmd |-> "go", fen |-> fen] >>

\* ------------------------------------------------------------ WebSocket feed
FeedFens == {Null, X, <<"X", SP, "w", SP, "K">>}

Messages ==
  {Message(FALSE, "other", "none", 0, Null, FALSE, 0),
   Message(FALSE, "d", "none", 0, X, TRUE, 0)} \cup
  {Message(TRUE, "gameFull", c, 0, Null, FALSE, 0) : c \in {"none", "white", "black"}} \cup
  {Message(TRUE, "gameState", "none", st, Null, FALSE, 0) : st \in {0, 20, 30}} \cup
  {Message(TRUE, t, "none", 0, f, TRUE, p) :
     t \in {"d", "move"}, f \in FeedFens, p \in 0..1} \cup
  {Message(TRUE, "d", "none", 0, X, FALSE, 0)}

\* The parity test turned round.
isWhitesTurnOdd(m) == m.hasPly /\ m.ply % 2 = 1

\* msg.d.ply % 2 === 0 (an undefined ply gives NaN, which is not 0)
isWhitesTurn(m) == m.hasPly /\ m.ply % 2 = 0

\* The string the d/move branch hands to dispatch.
feedFen(m) ==
  IF ~Includes(m.fen, <<SP, "w", SP>>) /\ ~Includes(m.fen, <<SP, "b", SP>>)
  THEN m.fen \o (IF isWhitesTurn(m) THEN <<SP, "w">> ELSE <<SP, "b">>)
  ELSE m.fen

\* (isWhite && isWhitesTurn) || (!isWhite && !isWhitesTurn); null is falsy
ourTurn(white, turn) ==
  (white = "true" /\ turn) \/ (white # "true" /\ ~turn)

\* ------------------------------------------------------------------ Init
InitWith(boards, scripts) ==
  /\ source \in boards
  /\ engineScript \in scripts
  /\ stockfish \in {FALSE, engineScript}
  /\ listener = "none"
  /\ watchers = {}
  /\ wsHooked = FALSE
  /\ wsAlive = FALSE
  /\ lastSentPlacement = Null
  /\ lastSentActive = Null
  /\ settleTimer = FALSE
  /\ confirmTimer = FALSE
  /\ pending = FALSE
  /\ timers = {}
  /\ gameId = Null
  /\ isWhite = "null"
  /\ currentFen = Null
  /\ bestMove = Null
  /\ autoMoveEnabled = FALSE
  /\ chessEngine = FALSE
  /\ webSocketWrapper = "null"
  /\ engineIn = <<>>
  /\ wsOut = <<>>
  /\ ev = Event("load", NoSample, NoSample, 0, 0, FALSE, <<>>)
  /\ lastPush = Null

Init == InitWith(Boards, {FALSE})

\* ------------------------------------------------------------- start-up
\* The strategy the listener installs.
strategy(kind, mo) ==
  IF kind = "events" THEN "events"
  ELSE IF kind # "none" /\ mo THEN "mutation"
  ELSE "poll"

\* A watcher that calls onAnyChange: the widget's four events, a
\* MutationObserver on the board element, or an interval of POLL_MS.
Watcher(type) ==
  [type |-> type, interval |-> IF type = "poll" THEN POLL_MS ELSE 0]

\* The watchers one run installs.
\* The return after the events branch dropped.
installedNoReturn(kind, mo) ==
  IF kind = "events"
  THEN {Watcher("events"), Watcher(IF mo THEN "mutation" ELSE "poll")}
  ELSE {Watcher(strategy(kind, mo))}

installed(kind, mo) ==
  IF kind = "events" THEN {Watcher("events")}
  ELSE IF kind # "none" /\ mo THEN {Watcher("mutation")}
  ELSE {Watcher("poll")}

\* The messages initializeChessEngine posts to the engine.
uciSetup ==
  << [cmd |-> "uci", fen |-> Null], [cmd |-> "skill", fen |-> Null],
     [cmd |-> "hash", fen |-> Null], [cmd |-> "threads", fen |-> Null],
     [cmd |-> "ucinewgame", fen |-> Null] >>

\* if (window.__FEN_LISTENER__) return;
\* The guard dropped.
neverRunning(l) == FALSE

alreadyRunning(l) == l # "none"

\* One run of the listener script while window.__FEN_LISTENER__ is unset, on
\* the page Page(lichess, elKind, hasMO).
Boot(lichess, elKind, hasMO) ==
  /\ ~alreadyRunning(listener)
  /\ elKind = "none" => ~source.ok
  /\ LET fi == sampleOf[source]
         out == IF fi # NoSample THEN dispatch(fi.raw) ELSE <<>>
         engine == lichess /\ engineScript /\ stockfish
     IN  /\ lastSentPlacement' = IF fi # NoSample THEN fi.placement ELSE lastSentPlacement
         /\ lastSentActive' = IF fi # NoSample THEN fi.active ELSE lastSentActive
         /\ ev' = [Event("boot", NoSample, fi, 0, 0, FALSE, out)
                     EXCEPT !.page = Page(lichess, elKind, hasMO)]
         /\ lastPush' = Logged(lastPush, out)
         /\ chessEngine' = engine
         /\ engineIn' = IF engine THEN uciSetup ELSE engineIn
  /\ wsHooked' = lichess
  /\ listener' = strategy(elKind, hasMO)
  /\ watchers' = watchers \cup installed(elKind, hasMO)
  /\ UNCHANGED <<source, envVars, wsAlive, settleTimer, confirmTimer, pending,
                 timers, gameId, isWhite, currentFen, bestMove, autoMoveEnabled,
                 webSocketWrapper, wsOut>>

\* A later run of a listener script: window.__FEN_LISTENER__ is set.
Rerun ==
  /\ alreadyRunning(listener)
  /\ ev' = Event("rerun", NoSample, NoSample, 0, 0, FALSE, <<>>)
  /\ UNCHANGED <<source, envVars, listener, watchers, wsHooked, wsAlive, stabVars,
                 engineVars, lastPush>>

\* The page changes what the widget shows.
SourceChange(w) ==
  /\ w # source
  /\ source' = w
  /\ ev' = Event("source", NoSample, NoSample, 0, 0, FALSE, <<>>)
  /\ UNCHANGED <<envVars, listener, watchers, wsHooked, wsAlive, stabVars, engineVars,
                 lastPush>>

\* ------------------------------------------------------------ onAnyChange
\* A change notification: a widget event, a mutation record or a poll tick.
Notify ==
  /\ watchers # {}
  /\ IF startsAttempt(pending)
     THEN /\ pending' = TRUE
          /\ settleTimer' = TRUE
          /\ timers' = Released(timers, "settle") \cup
               {Timer("settle", STABLE_DELAY_MS, 0, NoSample, 1, FALSE)}
          /\ ev' = Event("notify", NoSample, NoSample, 0, 1, FALSE, <<>>)
     ELSE /\ ev' = Event("notify", NoSample, NoSample, 0, 0, FALSE, <<>>)
          /\ UNCHANGED <<pending, settleTimer, timers>>
  /\ UNCHANGED <<source, envVars, listener, watchers, wsHooked, wsAlive, lastSentPlacement,
                 lastSentActive, confirmTimer, engineVars, lastPush>>

\* The settle timeout runs attempt(): the first sample.
SettleFire(t, late) ==
  /\ t \in timers /\ t.kind = "settle"
  /\ LET e == t.at + t.delay + late
         f1 == sampleOf[source]
     IN  /\ e <= MaxElapsed
         /\ IF f1 = NoSample
            THEN /\ pending' = FALSE
                 /\ timers' = timers \ {t}
                 /\ UNCHANGED confirmTimer
            ELSE /\ confirmTimer' = TRUE
                 /\ timers' = Released(timers \ {t}, "confirm") \cup
                      {Timer("confirm", CONFIRM_DELAY_MS, e, f1, t.round, t.agreed)}
                 /\ UNCHANGED pending
         /\ ev' = Event("settle", f1, NoSample, e, t.round, t.agreed, <<>>)
  /\ UNCHANGED <<source, envVars, listener, watchers, wsHooked, wsAlive, lastSentPlacement,
                 lastSentActive, settleTimer, engineVars, lastPush>>

\* The confirm timeout: the second sample and the decision.
ConfirmFire(t, late) ==
  /\ t \in timers /\ t.kind = "confirm"
  /\ LET e == t.at + t.delay + late
         f2 == sampleOf[source]
         d == IF f2 = NoSample THEN "unreadable"
              ELSE Decide(t.f1, f2, e, lastSentPlacement, lastSentActive)
         out == IF d = "emit" THEN dispatch(emitted(t.f1, f2)) ELSE <<>>
         agreed == t.agreed \/ (f2.placement = t.f1.placement /\ f2.active = t.f1.active)
     IN  /\ e <= MaxElapsed
         /\ lastSentPlacement' = IF d = "emit" THEN f2.placement ELSE lastSentPlacement
         /\ lastSentActive' = IF d = "emit" THEN f2.active ELSE lastSentActive
         /\ pending' = IF d = "retry" THEN pending ELSE FALSE
         /\ settleTimer' = IF d = "retry" THEN TRUE ELSE settleTimer
         /\ timers' = IF d = "retry"
                       THEN Released(timers \ {t}, "settle") \cup
                              {Timer("settle", STABLE_DELAY_MS, e, NoSample, t.round + 1, agreed)}
                       ELSE timers \ {t}
         /\ ev' = Event("confirm", t.f1, f2, e, t.round, agreed, out)
         /\ lastPush' = Logged(lastPush, out)
  /\ UNCHANGED <<source, envVars, listener, watchers, wsHooked, wsAlive, confirmTimer,
                 engineVars>>

\* window.__FEN_LISTENER__.clearTimers()
ClearTimers ==
  /\ listener # "none"
  /\ timers' = ClearedTimers
  /\ settleTimer' = FALSE
  /\ confirmTimer' = FALSE
  /\ ev' = Event("clear", NoSample, NoSample, 0, 0, FALSE, <<>>)
  /\ UNCHANGED <<source, envVars, listener, watchers, wsHooked, wsAlive, lastSentPlacement,
                 lastSentActive, pending, engineVars, lastPush>>

\* ------------------------------------------------- WebSocket interceptor
\* The page builds a socket through the Proxy: the construct trap.
WsConstruct ==
  /\ wsHooked
  /\ wsAlive' = TRUE
  /\ webSocketWrapper' = IF engineScript THEN "connecting" ELSE webSocketWrapper
  /\ ev' = Event("construct", NoSample, NoSample, 0, 0, FALSE, <<>>)
  /\ UNCHANGED <<source, envVars, listener, watchers, wsHooked, stabVars, gameId, isWhite,
                 currentFen, bestMove, autoMoveEnabled, chessEngine, engineIn,
                 wsOut, lastPush>>

\* handleGameEnd() resets these four globals.
\* The threshold compared with > instead of >=.
GameEndedAbove(m) == m.t = "gameState" /\ m.status > 30

GameEnded(m) == m.t = "gameState" /\ m.status >= 30

\* The d/move branch runs: the message carries a position string.
Feeds(m) == m.t \in {"d", "move"} /\ m.fen # Null

\* JSON.parse(event.data) returns: the data is JSON.
\* The parse never throwing.
parsesAnything(m) == TRUE

parses(m) == m.json

\* The message listener the construct trap registers.
WsMessage(m) ==
  /\ wsAlive
  /\ IF ~parses(m)
     THEN /\ ev' = [Event("ws", NoSample, NoSample, 0, 0, FALSE, <<>>)
                     EXCEPT !.msg = m]
          /\ UNCHANGED <<engineVars, lastPush>>
     ELSE LET ended == GameEnded(m)
              feeds == ~ended /\ Feeds(m)
              fenStr == IF feeds THEN feedFen(m) ELSE Null
              out == IF feeds THEN dispatch(fenStr) ELSE <<>>
              fen1 == IF feeds /\ engineScript THEN completeFen(fenStr)
                      ELSE currentFen
              posts == IF feeds /\ engineScript /\ autoMoveEnabled
                          /\ ourTurn(isWhite, isWhitesTurn(m))
                       THEN calculateMove(autoMoveEnabled, chessEngine, fen1)
                       ELSE <<>>
          IN  /\ gameId' = IF ~engineScript THEN gameId
                           ELSE IF ended THEN Null
                           ELSE IF m.t = "gameFull" THEN <<"g">>
                           ELSE gameId
              /\ isWhite' = IF ~engineScript THEN isWhite
                            ELSE IF ended THEN "null"
                            ELSE IF m.t = "gameFull" /\ m.color # "none"
                                 THEN (IF m.color = "white" THEN "true" ELSE "false")
                            ELSE isWhite
              /\ currentFen' = IF engineScript /\ ended THEN Null ELSE fen1
              /\ bestMove' = IF engineScript /\ ended THEN Null ELSE bestMove
              /\ Len(engineIn \o posts) <= MaxEngineIn
              /\ engineIn' = engineIn \o posts
              /\ ev' = [Event("ws", NoSample, NoSample, 0, 0, FALSE, out)
                         EXCEPT !.msg = m]
              /\ lastPush' = Logged(lastPush, out)
              /\ UNCHANGED <<autoMoveEnabled, chessEngine, webSocketWrapper,
                             wsOut>>
  /\ UNCHANGED <<source, envVars, listener, watchers, wsHooked, wsAlive, stabVars>>

\* ------------------------------------------------------- engine responses
BESTMOVE == <<"b", "e", "s", "t", "m", "o", "v", "e">>
NONE == <<"(", "n", "o", "n", "e", ")">>
E2E4 == <<"e", "2", "e", "4">>
PONDER == <<"p">>

\* What the engine hands to onmessage: Null is an event without string data.
EngineOutputs ==
  {Null, <<>>, <<"u", "c", "i", "o", "k">>, BESTMOVE,
   BESTMOVE \o <<SP>> \o E2E4,
   BESTMOVE \o <<SP>> \o E2E4 \o <<SP>> \o PONDER,
   BESTMOVE \o <<SP>> \o NONE,
   BESTMOVE \o <<SP>>,
   <<"i", "n", "f", "o">> \o <<SP>> \o E2E4}

\* The response names a move: startsWith('bestmove'), a second part exists
\* and it is not '(none)'.
namesMove(data) ==
  /\ ~Falsy(data)
  /\ StartsWith(data, BESTMOVE)
  /\ Len(SplitSpace(data)) >= 2
  /\ SplitSpace(data)[2] # NONE

\* webSocketWrapper && webSocketWrapper.readyState === WebSocket.OPEN
\* The readyState test dropped.
channelStored(rs) == rs # "null"

channelOpen(rs) == rs = "open"

\* The message webSocketWrapper.send is given.
MoveMessage(u) == [t |-> "move", u |-> u, b |-> 1, l |-> 10000, a |-> 1]

\* The positions calculateMove has asked the engine to search.
Searches ==
  {engineIn[i].fen : i \in {j \in DOMAIN engineIn : engineIn[j].cmd = "go"}}

\* The positions a response can be the engine's answer for: a bestmove line
\* answers one of the searches, any other output answers none.
AnswersTo(data) ==
  IF data # Null /\ StartsWith(data, BESTMOVE) THEN Searches ELSE {Null}

\* chessEngine.onmessage, installed by setupChessEngineOnMessage
EngineMessage(data) ==
  /\ chessEngine
  /\ Len(wsOut) < MaxSent
  /\ LET move == SplitSpace(data)[2]
         sends == namesMove(data) /\ channelOpen(webSocketWrapper)
     IN  /\ bestMove' = IF namesMove(data) THEN move ELSE bestMove
         /\ wsOut' = IF sends THEN Append(wsOut, MoveMessage(move)) ELSE wsOut
  /\ \E pos \in AnswersTo(data) :
       ev' = [Event("engine", NoSample, NoSample, 0, 0, FALSE, <<>>)
                EXCEPT !.data = data, !.pos = pos]
  /\ UNCHANGED <<source, envVars, listener, watchers, wsHooked, wsAlive, stabVars, gameId,
                 isWhite, currentFen, autoMoveEnabled, chessEngine,
                 webSocketWrapper, engineIn, lastPush>>

\* The stored socket's readyState moves on.
ReadyStates ==
  {<<"connecting", "open">>, <<"connecting", "closed">>,
   <<"open", "closing">>, <<"closing", "closed">>}

WsReady(rs) ==
  /\ <<webSocketWrapper, rs>> \in ReadyStates
  /\ webSocketWrapper' = rs
  /\ ev' = Event("ready", NoSample, NoSample, 0, 0, FALSE, <<>>)
  /\ UNCHANGED <<source, envVars, listener, watchers, wsHooked, wsAlive, stabVars, gameId,
                 isWhite, currentFen, bestMove, autoMoveEnabled, chessEngine,
                 engineIn, wsOut, lastPush>>

\* window.enableAutoMove() / window.disableAutoMove()
SetAutoMove(on) ==
  /\ engineScript
  /\ autoMoveEnabled' = on
  /\ ev' = Event("automove", NoSample, NoSample, 0, 0, FALSE, <<>>)
  /\ UNCHANGED <<source, envVars, listener, watchers, wsHooked, wsAlive, stabVars, gameId,
                 isWhite, currentFen, bestMove, chessEngine, webSocketWrapper,
                 engineIn, wsOut, lastPush>>

\* ------------------------------------------------------------------ Next
\* The listener starts on a page with an event-emitting board or with no
\* board element at all (the poller), with or without the WebSocket hook.
Next ==
  \/ \E lichess \in BOOLEAN, elKind \in {"none", "events"} :
        Boot(lichess, elKind, TRUE)
  \/ \E w \in Boards : SourceChange(w)
  \/ Notify
  \/ \E t \in timers, late \in Lateness : SettleFire(t, late)
  \/ \E t \in timers, late \in Lateness : ConfirmFire(t, late)
  \/ WsConstruct
  \/ \E m \in Messages : WsMessage(m)

Spec == Init /\ [][Next]_vars

\* ------------------------------------------------------------ stabilizer
\* The placement and active fields of two samples agree.
SameFields(f, g) == f.placement = g.placement /\ f.active = g.active

\* The step is the confirm callback deciding on two readable samples.
Decided == ev'.op = "confirm" /\ ev'.f2 # NoSample

\* C1: a stabilization attempt whose confirm sample has the last emitted
\* placement and active colour dispatches no FENPush, in whichever round and
\* after however many notifications; nor does any earlier step of an attempt.
C1_Idempotent ==
  [][/\ (Decided /\ ev'.f2.placement = lastSentPlacement
                 /\ ev'.f2.active = lastSentActive)
          => (ev'.out = <<>> /\ lastPush' = lastPush)
     /\ ev'.op \in {"notify", "settle"} => (ev'.out = <<>> /\ lastPush' = lastPush)
    ]_vars

\* C1 witness: in a second or later round the position that was emitted last
\* was read twice and nothing was dispatched.
C1_Witness ==
  /\ ev.op = "confirm" /\ ev.round >= 2
  /\ ev.f2.placement = lastSentPlacement /\ ev.f2.active = lastSentActive
  /\ SameFields(ev.f1, ev.f2)
  /\ ev.out = <<>>

\* C2: no two consecutive FENPush events, whichever paths raised them, carry
\* the same placement and the same active colour.
C2_NoConsecutiveDuplicates ==
  [][(ev'.out # <<>> /\ lastPush # Null)
       => ~SameFields(splitFen(ev'.out[1]), splitFen(lastPush))]_vars

\* C4: at most one timer of the stabilizer is scheduled at any time.
C4_SingleFlight == Cardinality(timers) <= 1

\* C4 witness: a notification arrived while the confirm timer of a second or
\* later round was the one scheduled timer.
C4_Witness ==
  /\ ev.op = "notify" /\ pending
  /\ Cardinality(timers) = 1
  /\ \E t \in timers : t.kind = "confirm" /\ t.round >= 2

\* C5: a notification received while pending changes nothing: pending, the
\* timers with their start time and held sample, the handles and the last
\* emitted fields stay as they are and nothing is dispatched; and once the
\* attempt has resolved, no further attempt is queued.
C5_PendingNoOp ==
  /\ [][(ev'.op = "notify" /\ pending)
          => (UNCHANGED <<stabVars, lastPush, source, listener>> /\ ev'.out = <<>>)
       ]_vars
  /\ [](~pending => timers = {})

\* C5 witness: a notification was ignored during the first settle delay.
C5_Witness ==
  /\ ev.op = "notify" /\ ev.round = 0 /\ pending
  /\ \E t \in timers : t.kind = "settle" /\ t.round = 1 /\ t.at = 0

\* C6: when the first round reads the same position twice and it differs from
\* the last emitted one, the confirm callback dispatches exactly the second
\* sample's raw string, records its fields, clears pending and schedules
\* nothing more; the attempt's earlier steps dispatch nothing.
C6_Success ==
  [][/\ (Decided /\ ev'.round = 1 /\ SameFields(ev'.f1, ev'.f2)
           /\ (ev'.f2.placement # lastSentPlacement \/ ev'.f2.active # lastSentActive))
          => /\ ev'.out = << Join(source.toks, Spaces(source.gap)) >>
             /\ ev'.out = << ev'.f2.raw >>
             /\ lastSentPlacement' = ev'.f2.placement
             /\ lastSentActive' = ev'.f2.active
             /\ ~pending' /\ timers' = {}
     /\ ev'.op \in {"notify", "settle"} => ev'.out = <<>>
    ]_vars

\* C6 witness: a first round emitted a second sample whose raw string differs
\* from the first sample's.
C6_Witness ==
  /\ ev.op = "confirm" /\ ev.round = 1
  /\ ev.out = << ev.f2.raw >> /\ ev.f1.raw # ev.f2.raw
  /\ lastSentPlacement = ev.f2.placement
  /\ ~pending

\* The settle timer a retry at elapsed time e of round r schedules.
RetryTimer(e, r, a) ==
  [kind |-> "settle", delay |-> 220, at |-> e, f1 |-> NoSample, round |-> r + 1,
   agreed |-> a, held |-> TRUE]

\* C7: when the two samples of a round differ in placement or active, the
\* round dispatches nothing and leaves the last emitted fields alone; a new
\* round is scheduled after the settle delay iff less than 1500 have elapsed,
\* and otherwise the attempt ends. So whatever the stabilizer emits was read
\* identically at both samples of its round.
C7_Rejection ==
  /\ [][(Decided /\ ~SameFields(ev'.f1, ev'.f2))
          => /\ ev'.out = <<>>
             /\ UNCHANGED <<lastSentPlacement, lastSentActive, lastPush>>
             /\ (ev'.elapsed < 1500) <=> (RetryTimer(ev'.elapsed, ev'.round, ev'.agreed) \in timers')
             /\ (ev'.elapsed < 1500) <=> pending'
             /\ (ev'.elapsed >= 1500) => timers' = {}
       ]_vars
  /\ []((ev.op = "confirm" /\ ev.out # <<>>) => SameFields(ev.f1, ev.f2))

\* C7 witness: two samples disagreed exactly when the timeout was reached and
\* the attempt ended without a dispatch.
C7_Witness ==
  /\ ev.op = "confirm" /\ ev.f2 # NoSample /\ ~SameFields(ev.f1, ev.f2)
  /\ ev.elapsed >= 1500 /\ ev.out = <<>>
  /\ ~pending /\ timers = {}

\* ---------------------------------------------------------------- liveness
\* The stabilizer alone, on a page whose board offers the event API, with
\* the event loop running every due timer callback: a scheduled settle or
\* confirm timeout eventually fires.
NextLive ==
  \/ \E hasMO \in BOOLEAN : Boot(FALSE, "events", hasMO)
  \/ \E w \in Boards : SourceChange(w)
  \/ Notify
  \/ \E t \in timers, late \in Lateness : SettleFire(t, late)
  \/ \E t \in timers, late \in Lateness : ConfirmFire(t, late)

SpecLive ==
  /\ Init /\ [][NextLive]_vars
  /\ WF_vars(\E t \in timers, late \in Lateness : SettleFire(t, late))
  /\ WF_vars(\E t \in timers, late \in Lateness : ConfirmFire(t, late))

\* The widget reads as a position whose placement or active colour differs
\* from the last emitted ones.
ReadsNew(b) ==
  /\ b.ok /\ b.toks # <<>>
  /\ \/ b.toks[1] # lastSentPlacement
     \/ splitFen(Join(b.toks, <<SP>>)).active # lastSentActive

\* C3: once the widget shows a position b that differs from the last emitted
\* one, a notification has fired for it (pending or not) and every later read
\* returns b, a FENPush carrying b is eventually dispatched.
C3_NeverDropped ==
  \A b \in Boards :
    []((ev.op = "notify" /\ source = b /\ ReadsNew(b) /\ [](source = b))
         => <>(ev.out = << Join(b.toks, <<SP>>) >>))

\* C8: an attempt none of whose rounds read two agreeing samples dispatches
\* nothing; a decision taken at an elapsed time of 1500 or more that does not
\* emit schedules no further round and clears pending; and every attempt
\* resolves: pending eventually becomes false.
C8_Timeout ==
  /\ [][(Decided /\ ~ev'.agreed)
          => (ev'.out = <<>> /\ UNCHANGED <<lastSentPlacement, lastSentActive>>)
       ]_vars
  /\ [][(Decided /\ ev'.elapsed >= 1500 /\ ev'.out = <<>>)
          => (timers' = {} /\ ~pending')]_vars
  /\ [](pending => <>(~pending))

\* C8 witness: an attempt whose rounds never agreed reached the timeout and
\* ended without a dispatch.
C8_Witness ==
  /\ ev.op = "confirm" /\ ev.f2 # NoSample /\ ~ev.agreed
  /\ ev.round >= 4 /\ ev.elapsed >= 1500
  /\ ev.out = <<>> /\ ~pending /\ timers = {}

\* ------------------------------------------------- splitFen development
\* The pure functions getFEN and splitFen on every widget string of up to
\* MaxToks tokens: the start-up read applies them.
InitSplit == InitWith(AllBoards, {FALSE})

NextSplit ==
  \E lichess \in BOOLEAN, elKind \in {"none", "plain", "events"},
     hasMO \in BOOLEAN : Boot(lichess, elKind, hasMO)

SpecSplit == InitSplit /\ [][NextSplit]_vars

\* The start-up read has run on a widget that shows k tokens.
SplitOf(k) == ev.op = "boot" /\ source.ok /\ Len(source.toks) = k

FieldNames == {"placement", "active", "castling", "ep", "half", "full", "raw"}

\* The i-th positional field of a sample.
FieldAt(f, i) ==
  CASE i = 1 -> f.placement [] i = 2 -> f.active [] i = 3 -> f.castling
    [] i = 4 -> f.ep [] i = 5 -> f.half [] i = 6 -> f.full

\* C9: for a raw position of k < 6 tokens, every named field beyond the k-th
\* takes its own default: active "?", castling "-", en-passant "-",
\* halfmove "0", fullmove "1".
C9_OwnDefaults ==
  \A k \in 1..5 :
    SplitOf(k) =>
      /\ k < 2 => ev.f2.active = <<"?">>
      /\ k < 3 => ev.f2.castling = <<"-">>
      /\ k < 4 => ev.f2.ep = <<"-">>
      /\ k < 5 => ev.f2.half = <<"0">>
      /\ k < 6 => ev.f2.full = <<"1">>

\* C10: null or empty input yields null; any other input yields exactly the
\* six named fields (and raw), none of them empty, the first min(k, 6) equal
\* to the input's tokens in order, and raw equal to the input string.
C10_SixFields ==
  ev.op = "boot" =>
    IF ~source.ok \/ source.toks = <<>>
    THEN ev.f2 = NoSample
    ELSE /\ DOMAIN ev.f2 = FieldNames
         /\ \A i \in 1..6 : ~Falsy(FieldAt(ev.f2, i))
         /\ \A i \in 1..6 : i <= Len(source.toks) => FieldAt(ev.f2, i) = source.toks[i]
         /\ ev.f2.raw = Join(source.toks, Spaces(source.gap))

\* C10 witness: seven tokens, separated by runs of two spaces, with leading
\* and trailing whitespace, were split into the six fields.
C10_Witness ==
  /\ SplitOf(MaxToks)
  /\ source.gap = 2 /\ source.lead = 1 /\ source.trail = 1
  /\ ev.f2.full = source.toks[6]
  /\ ev.f2.placement = source.toks[1]

\* ------------------------------------------------------------ direct feed
\* The position string carries an active-colour field: its second
\* whitespace-separated token is w or b.
HasColourField(fen) ==
  LET parts == SplitWs(Trim(fen)) IN Len(parts) >= 2 /\ parts[2] \in {W, B}

\* The step is the message handler taking the d/move branch.
FeedStep ==
  /\ ev'.op = "ws" /\ ev'.msg.json
  /\ ev'.msg.t \in {"d", "move"} /\ ev'.msg.fen # Null

\* C11: a d or move message whose fen has no active-colour field is
\* dispatched inside the handler, pending or not, as the fen followed by
\* " w" for an even ply and " b" for an odd ply; the handler schedules no
\* timer and leaves pending alone.
C11_DirectFeed ==
  [][(FeedStep /\ ~HasColourField(ev'.msg.fen))
       => /\ ev'.msg.hasPly /\ ev'.msg.ply % 2 = 0
               => ev'.out = << ev'.msg.fen \o <<SP, "w">> >>
          /\ ev'.msg.hasPly /\ ev'.msg.ply % 2 = 1
               => ev'.out = << ev'.msg.fen \o <<SP, "b">> >>
          /\ lastPush' = ev'.out[1]
          /\ UNCHANGED <<timers, pending, settleTimer, confirmTimer>>
    ]_vars

\* C11 witness: while an attempt was pending, a message with fen "X" and an
\* odd ply was dispatched as "X b".
C11_Witness ==
  /\ ev.op = "ws" /\ ev.msg.t = "move" /\ ev.msg.fen = X
  /\ ev.msg.hasPly /\ ev.msg.ply = 1
  /\ ev.out = << <<"X", SP, "b">> >>
  /\ pending /\ timers # {}

\* The feed with the automove globals in scope: the messages also carry the
\* player's colour and position strings that name the active colour.
ColourFens == {X, <<"X", SP, "w">>, <<"X", SP, "b", SP, "K">>}

FeedMessages ==
  {Message(FALSE, "d", "none", 0, X, TRUE, 0),
   Message(TRUE, "gameFull", "white", 0, Null, FALSE, 0),
   Message(TRUE, "gameFull", "black", 0, Null, FALSE, 0),
   Message(TRUE, "gameState", "none", 30, Null, FALSE, 0)} \cup
  {Message(TRUE, "d", "none", 0, f, TRUE, p) : f \in ColourFens, p \in 0..1}

InitFeed == InitWith({Pos(<<X, W>>)}, {TRUE})

NextFeed ==
  \/ Boot(TRUE, "events", TRUE)
  \/ WsConstruct
  \/ \E m \in FeedMessages : WsMessage(m)
  \/ \E rs \in {"open", "closing", "closed"} : WsReady(rs)
  \/ \E d \in EngineOutputs : EngineMessage(d)
  \/ \E on \in BOOLEAN : SetAutoMove(on)

SpecFeed == InitFeed /\ [][NextFeed]_vars

\* C12: a d or move message whose fen already has an active-colour field
\* (also a two-field string that ends in the colour) is dispatched unchanged.
C12_ColourKept ==
  [][(FeedStep /\ HasColourField(ev'.msg.fen))
       => ev'.out = << ev'.msg.fen >>]_vars

\* ------------------------------------------------------------ read failure
\* C13: reading an unreadable widget yields the absent sample and never
\* stops the handler; when the first or the confirm sample of a round is
\* absent, the attempt ends in that step: pending is cleared, nothing is
\* dispatched, no timer is left or scheduled whatever time has elapsed, and
\* the last emitted fields stay as they are. The start-up read of an
\* unreadable widget dispatches nothing either and the listener is installed.
C13_ReadFailure ==
  [][/\ (ev'.op = "settle" /\ ~source.ok)
          => /\ ev'.f1 = NoSample
             /\ ~pending' /\ timers' = {} /\ ev'.out = <<>>
             /\ UNCHANGED <<lastSentPlacement, lastSentActive, lastPush>>
     /\ (ev'.op = "confirm" /\ ~source.ok)
          => /\ ev'.f2 = NoSample
             /\ ~pending' /\ timers' = {} /\ ev'.out = <<>>
             /\ UNCHANGED <<lastSentPlacement, lastSentActive, lastPush>>
     /\ (ev'.op = "boot" /\ ~source.ok)
          => /\ ev'.f2 = NoSample /\ ev'.out = <<>> /\ listener' # "none"
             /\ UNCHANGED <<lastSentPlacement, lastSentActive, lastPush>>
    ]_vars

\* C13 witness: the confirm sample of a first round was absent after a
\* readable first sample, well before the timeout, and the attempt ended.
C13_Witness ==
  /\ ev.op = "confirm" /\ ev.round = 1 /\ ev.elapsed < 1500
  /\ ev.f1 # NoSample /\ ev.f2 = NoSample /\ ~source.ok
  /\ ~pending /\ timers = {} /\ ev.out = <<>>

\* ------------------------------------------------- teardown and re-injection
\* The stabilizer with the teardown hook called at any time and the listener
\* scripts run again at any time, on every kind of page.
NextCycle ==
  \/ \E lichess \in BOOLEAN, elKind \in {"none", "plain", "events"},
        hasMO \in BOOLEAN : Boot(lichess, elKind, hasMO)
  \/ Rerun
  \/ \E w \in Boards : SourceChange(w)
  \/ Notify
  \/ \E t \in timers, late \in Lateness : SettleFire(t, late)
  \/ \E t \in timers, late \in Lateness : ConfirmFire(t, late)
  \/ ClearTimers

SpecCycle == Init /\ [][NextCycle]_vars

\* C14: when a notification starts a new attempt, the only scheduled timer
\* is the attempt's own first settle timer; after clearTimers no timer is
\* scheduled, both handles are null and the next step is no settle or confirm
\* callback; and every scheduled timer is the one its handle refers to, so
\* that clearTimers reaches it.
C14_NoStaleCallbacks ==
  /\ [][(ev'.op = "notify" /\ ev'.round = 1)
          => timers' = {RetryTimer(0, 0, FALSE)}]_vars
  /\ [][ev'.op = "clear"
          => (timers' = {} /\ ~settleTimer' /\ ~confirmTimer')]_vars
  /\ [][ev.op = "clear" => ev'.op \notin {"settle", "confirm"}]_vars
  /\ [](\A t \in timers : t.held)

\* C14 witness: clearTimers ran while an attempt was in flight and cancelled
\* its timer.
C14_Witness ==
  /\ ev.op = "clear" /\ pending
  /\ timers = {} /\ ~settleTimer /\ ~confirmTimer

\* C15: the first run installs exactly one watcher: the widget's events iff
\* the board's game has an on function, otherwise a MutationObserver iff the
\* board element exists and MutationObserver is defined, otherwise the
\* interval of 300; the listener's type names it, and no later step installs
\* another or changes the type.
C15_OneStrategy ==
  /\ [][ev'.op = "boot"
          => /\ listener' =
                  IF ev'.page.elKind = "events" THEN "events"
                  ELSE IF ev'.page.elKind = "plain" /\ ev'.page.hasMO
                       THEN "mutation"
                  ELSE "poll"
             /\ watchers' =
                  {[type |-> listener',
                    interval |-> IF listener' = "poll" THEN 300 ELSE 0]}
       ]_vars
  /\ [][listener # "none" => UNCHANGED <<listener, watchers>>]_vars
  /\ [](listener = "none" <=> watchers = {})

\* C15 witness: a listener script ran again on a page whose first run had
\* installed the MutationObserver, and installed nothing.
C15_Witness ==
  /\ ev.op = "rerun"
  /\ listener = "mutation" /\ watchers = {[type |-> "mutation", interval |-> 0]}

\* ------------------------------------------------------------ emission state
\* C16: after every FENPush, whichever path dispatched it, the last emitted
\* fields are the placement and active colour of the dispatched string.
C16_SinkRecords ==
  [][ev'.out # <<>>
       => /\ lastSentPlacement' = splitFen(ev'.out[1]).placement
          /\ lastSentActive' = splitFen(ev'.out[1]).active]_vars

\* C18: the message handler, whatever the message, leaves pending, the
\* timers, their handles and the last emitted fields as they are; given data
\* that is not JSON it dispatches nothing and changes nothing at all.
C18_FeedBypass ==
  /\ [][ev'.op = "ws" => UNCHANGED stabVars]_vars
  /\ [][(ev'.op = "ws" /\ ~ev'.msg.json)
          => /\ ev'.out = <<>>
             /\ UNCHANGED <<source, envVars, listener, watchers, wsHooked,
                            wsAlive, stabVars, engineVars, lastPush>>]_vars

\* C18 witness: while an attempt was pending with a last emitted position
\* recorded, data that is not JSON but looks like a d message was handled.
C18_Witness ==
  /\ ev.op = "ws" /\ ~ev.msg.json /\ ev.msg.t = "d" /\ ev.msg.fen = X
  /\ ev.out = <<>>
  /\ pending /\ timers # {} /\ lastSentPlacement # Null

\* C19: a confirm sample with the last emitted placement and active colour
\* is not emitted although its string differs from the last emitted one in a
\* later field; and two samples of a new position that agree in placement and
\* active colour but differ in a later field are emitted, as the confirm
\* sample's string.
C19_PlacementAndActiveOnly ==
  [][/\ (Decided /\ lastPush # Null /\ ev'.f2.raw # lastPush
           /\ SameFields(ev'.f2, splitFen(lastPush))
           /\ lastSentPlacement = ev'.f2.placement
           /\ lastSentActive = ev'.f2.active)
          => (ev'.out = <<>> /\ UNCHANGED <<lastSentPlacement, lastSentActive>>)
     /\ (Decided /\ SameFields(ev'.f1, ev'.f2) /\ ev'.f1.raw # ev'.f2.raw
           /\ (ev'.f2.placement # lastSentPlacement
                 \/ ev'.f2.active # lastSentActive))
          => ev'.out = << ev'.f2.raw >>
    ]_vars

\* C19 witness: "X w" was the last emitted string and a round that read
\* "X w K" twice emitted nothing.
C19_Witness ==
  /\ ev.op = "confirm"
  /\ lastPush = <<"X", SP, "w">>
  /\ ev.f1.raw = <<"X", SP, "w", SP, "K">> /\ ev.f2.raw = ev.f1.raw
  /\ ev.f2.castling # splitFen(lastPush).castling
  /\ ev.out = <<>>

\* The step is a start-up or stabilizer emission.
OwnEmission == ev'.op \in {"boot", "confirm"} /\ ev'.out # <<>>

\* C20: the last emitted fields start as null; they change only in a
\* start-up or stabilizer step that dispatches a string with exactly those
\* fields, and every such dispatch sets them; the start-up sets them iff its
\* read succeeds; they are null together; and while they are null, a round
\* that reads a readable position twice emits it.
C20_Lifecycle ==
  /\ [][(lastSentPlacement' # lastSentPlacement \/ lastSentActive' # lastSentActive)
          => OwnEmission]_vars
  /\ [][OwnEmission
          => /\ ev'.out = << ev'.f2.raw >>
             /\ lastSentPlacement' = ev'.f2.placement
             /\ lastSentActive' = ev'.f2.active
             /\ lastSentPlacement' = splitFen(ev'.out[1]).placement
             /\ lastSentActive' = splitFen(ev'.out[1]).active]_vars
  /\ [][ev'.op = "boot"
          => ((source.ok /\ source.toks # <<>>) <=> ev'.out # <<>>)]_vars
  /\ [][(Decided /\ lastSentPlacement = Null /\ SameFields(ev'.f1, ev'.f2))
          => ev'.out = << ev'.f2.raw >>]_vars
  /\ [](lastSentPlacement = Null <=> lastSentActive = Null)
  /\ []((listener = "none") => (lastSentPlacement = Null /\ lastPush = Null))

\* C20 witness: on the poller's page, where the start-up read was absent,
\* the stabilizer emitted a position it read twice and recorded its fields.
C20_Witness ==
  /\ ev.op = "confirm" /\ ev.out = << ev.f2.raw >>
  /\ lastSentPlacement = ev.f2.placement /\ lastSentActive = ev.f2.active
  /\ listener = "poll"
  /\ ev.f2.raw = <<"X", SP, "w", SP, "K">>

\* ------------------------------------------------------------ move submission
\* The first space of s, or Len(s) + 1 when it has none.
FirstSpace(s) ==
  CHOOSE k \in 1..(Len(s) + 1) :
    /\ k = Len(s) + 1 \/ s[k] = SP
    /\ \A j \in 1..(k - 1) : s[j] # SP

\* What follows 'bestmove ' in a response up to the next space.
MoveToken(d) ==
  LET rest == SubSeq(d, Len(BESTMOVE) + 2, Len(d))
  IN  SubSeq(rest, 1, FirstSpace(rest) - 1)

\* The response is 'bestmove', a space and a token other than '(none)'.
HasMoveToken(d) ==
  /\ d # Null
  /\ Len(d) > Len(BESTMOVE)
  /\ SubSeq(d, 1, Len(BESTMOVE) + 1) = BESTMOVE \o <<SP>>
  /\ MoveToken(d) # NONE

\* C17: an engine response sends exactly one move message, carrying its
\* move token, on the stored socket iff it is 'bestmove' with a token other
\* than '(none)' and the socket's readyState is OPEN at that moment;
\* otherwise it sends nothing, and no other step ever sends: a move dropped
\* while the socket was not open is not sent when it opens.
C17_MoveSubmission ==
  /\ [][ev'.op = "engine"
          => IF HasMoveToken(ev'.data) /\ webSocketWrapper = "open"
             THEN wsOut' = Append(wsOut, [t |-> "move", u |-> MoveToken(ev'.data),
                                          b |-> 1, l |-> 10000, a |-> 1])
             ELSE wsOut' = wsOut]_vars
  /\ [][ev'.op # "engine" => wsOut' = wsOut]_vars

\* C17 witness: a bestmove response with a ponder move arrived while the
\* stored socket was open, and its move is the one message sent.
C17_Witness ==
  /\ ev.op = "engine"
  /\ ev.data = BESTMOVE \o <<SP>> \o E2E4 \o <<SP>> \o PONDER
  /\ webSocketWrapper = "open"
  /\ bestMove = E2E4
  /\ wsOut = << [t |-> "move", u |-> E2E4, b |-> 1, l |-> 10000, a |-> 1] >>

\* ------------------------------------------------------------ teardown
\* C24: pending is true only while a settle or confirm timer is scheduled,
\* also after clearTimers was called during an attempt.
C24_PendingBacked == pending => timers # {}

\* C25: a run of a listener script while window.__FEN_LISTENER__ is set
\* dispatches nothing and changes nothing; the start-up emission, the
\* WebSocket proxy and the watcher are installed by a run that found it unset
\* and that sets it, whatever the page; and once it is set, the type, the
\* watchers and the proxy stay as they are.
C25_SingleInstance ==
  /\ [][ev'.op = "rerun"
          => /\ ev'.out = <<>>
             /\ UNCHANGED <<source, envVars, listener, watchers, wsHooked,
                            wsAlive, stabVars, engineVars, lastPush>>]_vars
  /\ [][ev'.op = "boot" => (listener = "none" /\ listener' # "none")]_vars
  /\ [][listener # "none"
          => (ev'.op # "boot" /\ UNCHANGED <<listener, watchers, wsHooked>>)]_vars

\* C25 witness: on a lichess page whose first run read no position, a later
\* run found the board readable and emitted nothing.
C25_Witness ==
  /\ ev.op = "rerun"
  /\ wsHooked /\ source.ok /\ lastPush = Null /\ lastSentPlacement = Null
  /\ Cardinality(watchers) = 1

\* ------------------------------------------------------ timers on schedule
\* The stabilizer with every timer callback run exactly when its delay has
\* elapsed.
NextOnTime ==
  \/ \E hasMO \in BOOLEAN : Boot(FALSE, "events", hasMO)
  \/ \E w \in Boards : SourceChange(w)
  \/ Notify
  \/ \E t \in timers : SettleFire(t, 0)
  \/ \E t \in timers : ConfirmFire(t, 0)

SpecOnTime == Init /\ [][NextOnTime]_vars

\* C22: a round whose two samples agree with each other and with the last
\* emitted position dispatches nothing; it schedules the next round's settle
\* timer iff its decision is taken before 1500 and otherwise clears pending.
\* With timers on schedule the k-th decision is taken at k * (220 + 120), so
\* an attempt has at most 5 rounds and no timer of it is due later than 1700:
\* at 1700 at the latest pending is false.
C22_ResampleUntilTimeout ==
  /\ [][(Decided /\ SameFields(ev'.f1, ev'.f2)
           /\ ev'.f2.placement = lastSentPlacement
           /\ ev'.f2.active = lastSentActive)
          => /\ ev'.out = <<>>
             /\ IF ev'.elapsed < 1500
                THEN pending' /\ timers' = {RetryTimer(ev'.elapsed, ev'.round, TRUE)}
                ELSE ~pending' /\ timers' = {}]_vars
  /\ [](ev.op = "confirm" => (ev.elapsed = ev.round * (220 + 120) /\ ev.round <= 5))
  /\ [](ev.op = "settle" => ev.elapsed = ev.round * (220 + 120) - 120)
  /\ [](\A t \in timers : t.round <= 5 /\ t.at + t.delay <= 1700)
  /\ [](pending <=> timers # {})
  /\ []((ev.op = "confirm" /\ ev.elapsed >= 1700) => ~pending)

\* C22 witness: the fifth round of an attempt read the last emitted position
\* twice at 1700 and the attempt ended without a dispatch.
C22_Witness ==
  /\ ev.op = "confirm" /\ ev.round = 5 /\ ev.elapsed = 1700
  /\ SameFields(ev.f1, ev.f2)
  /\ ev.f2.placement = lastSentPlacement /\ ev.f2.active = lastSentActive
  /\ ev.out = <<>> /\ ~pending /\ timers = {}

\* ------------------------------------------------------------ polling
\* The stabilizer behind the fallback poller: the page has no board element
\* when the listener starts, or a board without events and no
\* MutationObserver; the interval keeps calling onAnyChange and the event
\* loop runs every due timer callback.
NextPoll ==
  \/ \E hasMO \in BOOLEAN : Boot(FALSE, "none", hasMO)
  \/ Boot(FALSE, "plain", FALSE)
  \/ \E w \in Boards : SourceChange(w)
  \/ Notify
  \/ \E t \in timers, late \in Lateness : SettleFire(t, late)
  \/ \E t \in timers, late \in Lateness : ConfirmFire(t, late)

SpecPoll ==
  /\ Init /\ [][NextPoll]_vars
  /\ WF_vars(\E hasMO \in BOOLEAN : Boot(FALSE, "none", hasMO))
  /\ WF_vars(Boot(FALSE, "plain", FALSE))
  /\ WF_vars(Notify)
  /\ WF_vars(\E t \in timers, late \in Lateness : SettleFire(t, late))
  /\ WF_vars(\E t \in timers, late \in Lateness : ConfirmFire(t, late))

\* The readable widget states.
Readable == {b \in Boards : b.ok /\ b.toks # <<>>}

GameEndStep ==
  /\ ev'.op = "ws" /\ ev'.msg.json
  /\ ev'.msg.t = "gameState" /\ ev'.msg.status >= 30

\* C23: a gameState message with status >= 30 sets currentFen, bestMove,
\* gameId and isWhite to null, leaves the engine, the stored socket and the
\* automove switch alone, dispatches nothing and posts nothing to the
\* engine; and the engine is only ever posted to by the start-up and by a d
\* or move message, which posts the position it has just stored, so that
\* after a game end nothing is posted before such a message arrives.
C23_GameEnd ==
  /\ [][GameEndStep
          => /\ currentFen' = Null /\ bestMove' = Null
             /\ gameId' = Null /\ isWhite' = "null"
             /\ UNCHANGED <<chessEngine, webSocketWrapper, autoMoveEnabled,
                            engineIn, wsOut, lastPush>>
             /\ ev'.out = <<>>]_vars
  /\ [][(engineIn' # engineIn /\ ev'.op # "boot")
          => /\ FeedStep
             /\ currentFen' # Null
             /\ engineIn' = engineIn \o << [cmd |-> "position", fen |-> currentFen'],
                                           [cmd |-> "go", fen |-> currentFen'] >>
       ]_vars

\* C23 witness: a game in which a move had been calculated and the player's
\* colour was known ended, with automove on and the stored socket open.
C23_Witness ==
  /\ ev.op = "ws" /\ ev.msg.t = "gameState" /\ ev.msg.status >= 30
  /\ currentFen = Null /\ isWhite = "null" /\ gameId = Null /\ bestMove = Null
  /\ autoMoveEnabled /\ chessEngine /\ webSocketWrapper = "open"
  /\ Len(engineIn) > 5 /\ Len(wsOut) = 1

\* C26: a feed message makes calculateMove post to the engine only when
\* automove is enabled, isWhite is true or false and the side to move by
\* ply is the player's side.
C26_TurnGating ==
  [][(ev'.op = "ws" /\ engineIn' # engineIn)
       => /\ autoMoveEnabled
          /\ isWhite \in {"true", "false"}
          /\ ev'.msg.hasPly
          /\ (isWhite = "true") <=> (ev'.msg.ply % 2 = 0)]_vars

\* C27: a move is sent only for a response the engine computed for the
\* position currentFen holds at that moment.
C27_NoStaleMove ==
  [][(ev'.op = "engine" /\ wsOut' # wsOut)
       => (currentFen # Null /\ ev'.pos = currentFen)]_vars
====
